---------------------------- MODULE Spec2Model ----------------------------
(***************************************************************************)
(* Model of the nannou vector-field sketch (vector_field/src/main.rs and   *)
(* vector_field/src/particles/simple.rs).                                  *)
(*                                                                         *)
(* Units.  Lengths are whole canvas units; rectangles are centred on the   *)
(* origin as nannou's window rect is, so an edge is kept as twice its      *)
(* value (an odd width has half-unit edges).  Time and speed are whole     *)
(* ticks, and the f32 arithmetic on them is modelled exactly.  Angles are  *)
(* counted in quarter turns (2*PI = 4).  The Perlin noise of the nannou    *)
(* library is a fixed deterministic function with values in -1 .. 1.       *)
(***************************************************************************)
EXTENDS Integers, Sequences, FiniteSets, TLC

VARIABLES
    time,             \* app.time, the wall clock the host hands to update/view
    win,              \* app.window_rect() / app.main_window().rect()
    running,          \* Model.running
    reference_time,   \* Model.reference_time
    speed,            \* Model.speed
    step_sample,      \* Model.step_sample
    max_angle,        \* Model.max_angle
    frequency,        \* Model.frequency
    enable_particles, \* Model.enable_particles
    particle_system,  \* Model.particle_system (SimpleParticleSystem)
    particle_texture, \* Model.particle_texture: its size and the painted cells
    frame,            \* what the last update call did (its locals)
    view_out,         \* what the last view call drew
    phase             \* which callback the host runs next

vars == <<time, win, running, reference_time, speed, step_sample, max_angle,
          frequency, enable_particles, particle_system, particle_texture,
          frame, view_out, phase>>

---------------------------------------------------------------------------
(* Bounds of the model *)

MaxTime == 2
MaxClock == 4
MaxSpeed == 2
MaxStep == 3
MaxFrequency == 2
MaxCount == 2
MaxMoveDelta == 2
MaxSize == 1
MaxWinW == 5
MaxWinH == 3

(* Program constants, in the model's units *)

SPEED_DEFAULT == 1
STEP_DEFAULT == 50
MAX_ANGLE_DEFAULT == 4
FREQUENCY_DEFAULT == 1
PARTICLE_COUNT_DEFAULT == 1
PARTICLE_SIZE_DEFAULT == 1
PARTICLE_MOVE_DELTA == 2
RUNNING_DEFAULT == FALSE

(* The values the widgets of the settings window can be set to *)

Speeds == 0 .. MaxSpeed
Steps == 1 .. MaxStep
MaxAngles == {0, 1, MAX_ANGLE_DEFAULT}
Frequencies == 1 .. MaxFrequency
Counts == 0 .. MaxCount
MoveDeltas == -1 .. MaxMoveDelta
Sizes == 0 .. MaxSize
WinSizes == {[w |-> MaxWinW - 1, h |-> MaxWinH - 1], [w |-> MaxWinW, h |-> MaxWinH]}

---------------------------------------------------------------------------
(* Rect and integer helpers *)

\* Rect::left() .. Rect::top() of a rect centred on the origin, doubled
Left2(r) == -r.w
Right2(r) == r.w
Bottom2(r) == -r.h
Top2(r) == r.h

\* `f as i32` of the half-unit value v2/2: truncation toward zero
AsI32(v2) == IF v2 >= 0 THEN v2 \div 2 ELSE -((-v2) \div 2)

\* step_by over the inclusive range lo..=hi
StepBy_Inclusive(lo, hi, step) == {v \in lo .. hi : (v - lo) % step = 0}

\* (lo..hi).step_by(step): lo, lo+step, ... below hi
StepBy(lo, hi, step) == {v \in lo .. (hi - 1) : (v - lo) % step = 0}

\* usize subtraction: the mathematical difference and whether it underflows
UsizeSub(a, b) == [val |-> a - b, underflow |-> a < b]

---------------------------------------------------------------------------
(* The noise field and the angle derived from it *)

NoiseRes == 2

\* a noise coordinate num/den, as the lattice cell the stand-in noise reads
NoiseCell(num, den) == (NoiseRes * num) \div den

\* NoiseFn::get([x, y, z]) of the shared Perlin instance
Perlin(cx, cy, cz) == ((cx + 2 * cy + cz) % 3) - 1

\* the scaled noise with a constant quarter turn added to it
NoiseAngle_Offset(r, x, y, freq, z, maxAngle) ==
    Perlin(NoiseCell((Right2(r) - 2 * x) * freq, 2 * r.w),
           NoiseCell((Top2(r) - 2 * y) * freq, 2 * r.h),
           z) * maxAngle + 1

\* noise.get([perlin_x * frequency, perlin_y * frequency, z]) as f32 * max_angle,
\* for a point (x, y) of the rectangle r
NoiseAngle(r, x, y, freq, z, maxAngle) ==
    LET perlin_x_num == Right2(r) - 2 * x
        perlin_y_num == Top2(r) - 2 * y
    IN  Perlin(NoiseCell(perlin_x_num * freq, 2 * r.w),
               NoiseCell(perlin_y_num * freq, 2 * r.h),
               z) * maxAngle

\* Vec2::new(1., 0.).rotate(angle), angle in quarter turns
RotateX(angle) == CASE angle % 4 = 0 -> 1
                    [] angle % 4 = 2 -> -1
                    [] OTHER -> 0
RotateY(angle) == CASE angle % 4 = 1 -> 1
                    [] angle % 4 = 3 -> -1
                    [] OTHER -> 0

\* noise_z following the wall clock whether the model runs or not
NoiseZ_IgnoresPause(t, run, spd, ref) == t * spd - ref

\* noise_z with the running branch's subtraction the wrong way round
NoiseZ_Reversed(t, run, spd, ref) == IF run THEN ref - t * spd ELSE ref

\* noise_z(app, model)
NoiseZ(t, run, spd, ref) == IF run THEN t * spd - ref ELSE ref


---------------------------------------------------------------------------
(* SimpleParticleSystem *)

\* the values random_range(lo, hi) is sampled at, lo and hi doubled: the
\* smallest and the largest whole value of [lo, hi)
RandomRange(lo2, hi2) ==
    LET whole == {v \in AsI32(lo2) - 1 .. AsI32(hi2) + 1 :
                     lo2 <= 2 * v /\ 2 * v < hi2}
    IN  {v \in whole : (\A u \in whole : v <= u) \/ (\A u \in whole : u <= v)}

\* the points random_range(left, right) x random_range(bottom, top) can give
RandomPoints(r) ==
    [x : RandomRange(Left2(r), Right2(r)), y : RandomRange(Bottom2(r), Top2(r))]

\* the particle vectors reset() can build for a system ps
RandomParticles(ps) == [1 .. ps.count -> RandomPoints(ps.container)]

\* reset pushing the new particles onto the old vector
SystemReset_Appends(ps, fresh) == [ps EXCEPT !.particles = @ \o fresh]

\* SimpleParticleSystem::reset, fresh being the particles the random draws give
SystemReset(ps, fresh) == [ps EXCEPT !.particles = fresh]

\* SimpleParticleSystem::new
SystemNew(container, fresh) ==
    SystemReset([particles |-> << >>,
                 container |-> container,
                 count |-> PARTICLE_COUNT_DEFAULT,
                 move_delta |-> PARTICLE_MOVE_DELTA,
                 default_size |-> PARTICLE_SIZE_DEFAULT], fresh)

\* the noise_angle of every particle in SimpleParticleSystem::update
Headings(ps, noise_z, freq, maxAngle) ==
    [i \in 1 .. Len(ps.particles) |->
        NoiseAngle(ps.container, ps.particles[i].x, ps.particles[i].y,
                   freq, noise_z, maxAngle)]

\* update moving the particles by the default delta, not the configured one
SystemUpdate_DefaultDelta(ps, noise_z, freq, maxAngle) ==
    LET angle == Headings(ps, noise_z, freq, maxAngle)
    IN  [ps EXCEPT !.particles =
            [i \in 1 .. Len(ps.particles) |->
                [x |-> ps.particles[i].x + RotateX(angle[i]) * PARTICLE_MOVE_DELTA,
                 y |-> ps.particles[i].y + RotateY(angle[i]) * PARTICLE_MOVE_DELTA]]]

\* SimpleParticleSystem::update
SystemUpdate(ps, noise_z, freq, maxAngle) ==
    LET angle == Headings(ps, noise_z, freq, maxAngle)
    IN  [ps EXCEPT !.particles =
            [i \in 1 .. Len(ps.particles) |->
                [x |-> ps.particles[i].x + RotateX(angle[i]) * ps.move_delta,
                 y |-> ps.particles[i].y + RotateY(angle[i]) * ps.move_delta]]]

\* SimpleParticleSystem::draw: the cells the particles' squares cover
SystemDraw(ps) ==
    IF ps.default_size > 0
    THEN {<<ps.particles[i].x, ps.particles[i].y>> : i \in 1 .. Len(ps.particles)}
    ELSE {}

\* SimpleParticleSystem::config_gui, given what the three DragValues hold
ConfigGui(ps, count, moveDelta, size) ==
    [ps EXCEPT !.count = count, !.move_delta = moveDelta, !.default_size = size]

---------------------------------------------------------------------------
(* The accumulation texture *)

\* the texture builder given the width of the rect for both of its sides
NewTexture_Square(r) == [w |-> r.w, h |-> r.w, marks |-> {}]

\* wgpu::TextureBuilder::new().size([rect.w() as u32, rect.h() as u32]).build()
NewTexture(r) == [w |-> r.w, h |-> r.h, marks |-> {}]

\* the cells of a draw that fall on the texture tex, which is centred on the
\* origin like the window
OnTexture(tex, cells) ==
    {c \in cells : /\ -tex.w <= 2 * c[1] /\ 2 * c[1] < tex.w
                   /\ -tex.h <= 2 * c[2] /\ 2 * c[2] < tex.h}

\* render_to_texture clearing the texture before it paints
RenderToTexture_Clears(tex, drawn) ==
    [tex EXCEPT !.marks = OnTexture(tex, drawn)]

\* Renderer::render_to_texture of a draw without background: the texture is
\* loaded, not cleared, and the drawn cells that lie on it are painted over it
RenderToTexture(tex, drawn) ==
    [tex EXCEPT !.marks = @ \cup OnTexture(tex, drawn)]

---------------------------------------------------------------------------
(* The callbacks *)

NoFrame == [noise_z |-> 0, toggle |-> FALSE, reset |-> FALSE,
            advected |-> FALSE, sampled |-> << >>, headings |-> << >>]

NoView == [status |-> "none", win |-> [w |-> 0, h |-> 0], step |-> 0,
           underflow |-> FALSE, max_angle |-> 0, perlin_z |-> 0,
           cols |-> 0, rows |-> 0, angles |-> << >>]

\* model(app)
Init ==
    /\ time = 0
    /\ win \in WinSizes
    /\ running = RUNNING_DEFAULT
    /\ reference_time = 0
    /\ speed = SPEED_DEFAULT
    /\ step_sample = STEP_DEFAULT
    /\ max_angle = MAX_ANGLE_DEFAULT
    /\ frequency = FREQUENCY_DEFAULT
    /\ enable_particles = FALSE
    /\ \E fresh \in [1 .. PARTICLE_COUNT_DEFAULT -> RandomPoints(win)] :
          particle_system = SystemNew(win, fresh)
    /\ particle_texture = NewTexture(win)
    /\ frame = NoFrame
    /\ view_out = NoView
    /\ phase = "update"

\* the settings window left alone for a frame
Idle ==
    [step_sample |-> step_sample, max_angle |-> max_angle,
     frequency |-> frequency, speed |-> speed, toggle |-> FALSE,
     reset |-> FALSE, enable_particles |-> enable_particles,
     count |-> particle_system.count,
     move_delta |-> particle_system.move_delta,
     default_size |-> particle_system.default_size]

\* what the widgets of the settings window can report in one frame: the user
\* operates at most one widget per frame
UiInputs ==
    {Idle}
    \cup {[Idle EXCEPT !.step_sample = v] : v \in Steps}
    \cup {[Idle EXCEPT !.max_angle = v] : v \in MaxAngles}
    \cup {[Idle EXCEPT !.frequency = v] : v \in Frequencies}
    \cup {[Idle EXCEPT !.speed = v] : v \in Speeds}
    \cup {[Idle EXCEPT !.toggle = TRUE]}
    \cup {[Idle EXCEPT !.reset = TRUE]}
    \cup {[Idle EXCEPT !.enable_particles = ~enable_particles]}
    \cup {[Idle EXCEPT !.count = v] : v \in Counts}
    \cup {[Idle EXCEPT !.move_delta = v] : v \in MoveDeltas}
    \cup {[Idle EXCEPT !.default_size = v] : v \in Sizes}

\* the Pause/Run button adding the old reference instead of subtracting it
ToggleReference_Added(t, spd, ref) == t * spd + ref

\* reference_time after the Pause/Run button: app.time * speed - reference_time
ToggleReference(t, spd, ref) == t * spd - ref

\* update(app, model, update), called with app.time = t
Update(t, ui, fresh) ==
    /\ phase = "update"
    /\ time < t
    /\ LET noise_z == NoiseZ(t, running, speed, reference_time)
           ps1 == IF ui.reset THEN SystemReset(particle_system, fresh)
                  ELSE particle_system
           tex1 == IF ui.reset THEN NewTexture(win) ELSE particle_texture
           ps2 == ConfigGui(ps1, ui.count, ui.move_delta, ui.default_size)
           ps3 == IF ui.enable_particles
                  THEN SystemUpdate(ps2, noise_z, ui.frequency, ui.max_angle)
                  ELSE ps2
           tex2 == IF ui.enable_particles
                   THEN RenderToTexture(tex1, SystemDraw(ps3))
                   ELSE tex1
       IN  /\ time' = t
           /\ step_sample' = ui.step_sample
           /\ max_angle' = ui.max_angle
           /\ frequency' = ui.frequency
           /\ speed' = ui.speed
           /\ reference_time' = IF ui.toggle
                                THEN ToggleReference(t, ui.speed, reference_time)
                                ELSE reference_time
           /\ running' = IF ui.toggle THEN ~running ELSE running
           /\ enable_particles' = ui.enable_particles
           /\ particle_system' = ps3
           /\ particle_texture' = tex2
           /\ frame' = [noise_z |-> noise_z, toggle |-> ui.toggle,
                        reset |-> ui.reset,
                        advected |-> ui.enable_particles,
                        sampled |-> IF ui.enable_particles
                                    THEN ps2.particles ELSE << >>,
                        headings |-> IF ui.enable_particles
                                     THEN Headings(ps2, noise_z, ui.frequency,
                                                   ui.max_angle)
                                     ELSE << >>]
    /\ phase' = "view"
    /\ UNCHANGED <<win, view_out>>

\* the grid view samples: one cell per canvas_x and canvas_y of its two loops
GridXs(r, step) == StepBy(AsI32(Left2(r)), AsI32(Right2(r)), step)
GridYs(r, step) == StepBy(AsI32(Bottom2(r)), AsI32(Top2(r)), step)

\* view(app, model, frame).  `step - 2` is a usize subtraction: below 2 it
\* panics in a build with overflow checks and wraps around in one without
View ==
    /\ phase = "view"
    /\ LET step == step_sample
           arrow_width == UsizeSub(step, 2)
           perlin_z == NoiseZ(time, running, speed, reference_time)
           xs == GridXs(win, step)
           ys == GridYs(win, step)
           drawn == [status |-> "drawn", win |-> win, step |-> step,
                     underflow |-> arrow_width.underflow,
                     max_angle |-> max_angle, perlin_z |-> perlin_z,
                     cols |-> Cardinality(xs), rows |-> Cardinality(ys),
                     angles |-> [c \in xs \X ys |->
                                   NoiseAngle(win, c[1], c[2], frequency,
                                              perlin_z, max_angle)]]
       IN  \/ view_out' = drawn
           \/ /\ arrow_width.underflow
              /\ view_out' = [NoView EXCEPT !.status = "panic", !.win = win,
                                            !.step = step, !.underflow = TRUE]
    /\ phase' = "update"
    /\ UNCHANGED <<time, win, running, reference_time, speed, step_sample,
                   max_angle, frequency, enable_particles, particle_system,
                   particle_texture, frame>>

\* the window is resized between two frames: raw_window_event hands the event
\* to egui and nothing else reacts to it
Resized(r) ==
    /\ phase = "update"
    /\ r # win
    /\ win' = r
    /\ UNCHANGED <<time, running, reference_time, speed, step_sample,
                   max_angle, frequency, enable_particles, particle_system,
                   particle_texture, frame, view_out, phase>>

Next ==
    \/ \E t \in 1 .. MaxTime, ui \in UiInputs :
          \E fresh \in (IF ui.reset THEN RandomParticles(particle_system)
                        ELSE {<< >>}) :
             Update(t, ui, fresh)
    \/ View
    \/ \E r \in WinSizes : Resized(r)

Spec == Init /\ [][Next]_vars

\* the frames in which the user operates only the widgets of the time
\* control, the Speed slider and the Pause/Run button, over a longer run
ClockInputs ==
    {Idle}
    \cup {[Idle EXCEPT !.speed = v] : v \in Speeds}
    \cup {[Idle EXCEPT !.toggle = TRUE]}

NextClock ==
    \/ \E t \in 1 .. MaxClock, ui \in ClockInputs : Update(t, ui, << >>)
    \/ View

SpecClock == Init /\ [][NextClock]_vars


---------------------------------------------------------------------------
(* The effective time coordinate *)

\* what noise_z returns for the model as it stands, at wall-clock time t
EffectiveTime(t) == NoiseZ(t, running, speed, reference_time)

\* what noise_z returns after a step, at the wall-clock time of that step
EffectiveTimeNext == NoiseZ(time', running', speed', reference_time')

\* C1: a Pause/Run toggle with the speed left alone causes no jump of the
\* effective time: at the instant of the toggle, noise_z returns after the
\* toggle (as view reads it) what it returned before it (as update read it),
\* whichever way the toggle goes; and between a pause and the resume the value
\* does not move, so the round trip ends on the value it paused at.
C1_ToggleContinuity ==
    [][/\ (running' # running /\ speed' = speed)
            => /\ EffectiveTimeNext = EffectiveTime(time')
               /\ EffectiveTimeNext = frame'.noise_z
       /\ (~running /\ ~running' /\ speed' = speed)
            => EffectiveTimeNext = EffectiveTime(time)]_vars

\* C1 witness: the model just resumed (Paused -> Running) on a non-zero
\* effective time, i.e. after it had run and been paused before
C1_Witness ==
    /\ phase = "view"
    /\ frame.toggle
    /\ running
    /\ frame.noise_z > 0
    /\ EffectiveTime(time) = frame.noise_z

\* C5 as stated: over a frame in which the model stays Running, the effective
\* time view reads does not decrease, whatever is done to the speed slider
C5_MonotoneAnySpeed ==
    [][(running /\ running' /\ time' > time /\ speed >= 0 /\ speed' >= 0)
          => EffectiveTimeNext >= EffectiveTime(time)]_vars

\* C5 amended: over a frame in which the model stays Running and the speed is
\* non-negative and not lowered, the effective time does not decrease
C5_MonotoneSpeedNotLowered ==
    [][(running /\ running' /\ time' > time /\ speed >= 0 /\ speed' >= speed)
          => EffectiveTimeNext >= EffectiveTime(time)]_vars

\* C5 witness: a frame spent Running, without a toggle, in which the speed was
\* raised: view reads a later effective time than update read at its start
C5_Witness ==
    /\ phase = "view"
    /\ running
    /\ ~frame.toggle
    /\ speed > 0
    /\ EffectiveTime(time) > frame.noise_z

\* C13: over a step that leaves the model Paused, noise_z returns the same
\* value after as before, whatever the wall clock and the speed slider do; and
\* reference_time changes in no step but a Pause/Run toggle
C13_PausedTimeFrozen ==
    [][/\ (~running /\ ~running') => EffectiveTimeNext = EffectiveTime(time)
       /\ reference_time' # reference_time => running' # running]_vars

\* C13 witness: a frame spent Paused, after the model had run, that ended
\* with another speed than the default one: view reads the effective time
\* update read, the reference frozen at the pause
C13_Witness ==
    /\ phase = "view"
    /\ ~running
    /\ ~frame.toggle
    /\ reference_time > 0
    /\ speed # SPEED_DEFAULT
    /\ time * speed - reference_time # reference_time
    /\ EffectiveTime(time) = frame.noise_z

---------------------------------------------------------------------------
(* The particle system and the accumulation texture *)

\* a step is a call of update
IsUpdate == time' > time

\* the particles before and after a step
Particles == particle_system.particles
ParticlesNext == particle_system'.particles

\* the cells the particles ps stand on
CellsOf(ps) == {<<ps[i].x, ps[i].y>> : i \in 1 .. Len(ps)}

C4_BufferMatchesCanvas ==
    /\ particle_texture.w = win.w
    /\ particle_texture.h = win.h

\* C6: a paint pass in a frame without a reset keeps every mark the earlier
\* passes left on the texture
C6_PaintKeepsMarks ==
    [][(IsUpdate /\ frame'.advected /\ ~frame'.reset)
          => particle_texture.marks \subseteq particle_texture'.marks]_vars

\* C6 witness: after a paint pass the texture shows a mark of this pass and a
\* mark of an earlier pass, where no particle stands any more
C6_Witness ==
    /\ phase = "view"
    /\ frame.advected
    /\ ~frame.reset
    /\ \E c \in particle_texture.marks : c \in CellsOf(Particles)
    /\ \E c \in particle_texture.marks : c \notin CellsOf(Particles)

\* every particle has moved by the configured move_delta along its heading
MovedByDelta ==
    /\ Len(ParticlesNext) = Len(Particles)
    /\ \A i \in 1 .. Len(Particles) :
          /\ ParticlesNext[i].x - Particles[i].x
                = RotateX(frame'.headings[i]) * particle_system'.move_delta
          /\ ParticlesNext[i].y - Particles[i].y
                = RotateY(frame'.headings[i]) * particle_system'.move_delta

\* the texture has gained the squares of the configured size, and only those
PaintedBySize ==
    particle_texture'.marks =
        particle_texture.marks \cup
            (IF particle_system'.default_size > 0
             THEN OnTexture(particle_texture, CellsOf(ParticlesNext))
             ELSE {})

---------------------------------------------------------------------------
(* The grid view samples *)

\* the quotient n / d rounded up
CeilDiv(n, d) == (n + d - 1) \div d

\* the length of the i32 range view walks along an axis of extent `extent`
RangeLen(extent) == AsI32(extent) - AsI32(-extent)

\* C3 as stated: the grid has floor(W / step) + 1 columns and
\* floor(H / step) + 1 rows
C3_GridFloorPlusOne ==
    view_out.status = "drawn"
        => /\ view_out.cols = (view_out.win.w \div view_out.step) + 1
           /\ view_out.rows = (view_out.win.h \div view_out.step) + 1

\* C3 amended: the grid has ceil(w / step) columns and ceil(h / step) rows,
\* w and h being the lengths of the half-open i32 ranges between the
\* truncated edges of the window
C3_GridCeil ==
    view_out.status = "drawn"
        => /\ view_out.cols = CeilDiv(RangeLen(view_out.win.w), view_out.step)
           /\ view_out.rows = CeilDiv(RangeLen(view_out.win.h), view_out.step)

\* C3 witness: view has drawn a grid of several columns whose step divides the
\* width of the window
C3_Witness ==
    /\ view_out.status = "drawn"
    /\ ~view_out.underflow
    /\ view_out.win.w % view_out.step = 0
    /\ view_out.cols > 1
    /\ view_out.cols * view_out.step = view_out.win.w

\* C8: view draws the field without an error for every step of the slider:
\* it neither panics nor lets `step - 2` wrap around
C8_ViewNeverUnderflows ==
    /\ view_out.status # "panic"
    /\ ~view_out.underflow

\* C9: with max_angle = 0 the angle of every grid cell view draws and the
\* heading of every particle update moves is 0
C9_ZeroMaxAngle ==
    /\ (view_out.status = "drawn" /\ view_out.max_angle = 0)
          => \A c \in DOMAIN view_out.angles : view_out.angles[c] = 0
    /\ (frame.advected /\ max_angle = 0)
          => \A i \in 1 .. Len(frame.headings) : frame.headings[i] = 0

\* C9 witness: with max_angle = 0, view has drawn a grid and update has moved
\* particles at places where the noise sample itself is not 0
C9_Witness ==
    /\ max_angle = 0
    /\ view_out.status = "drawn"
    /\ view_out.max_angle = 0
    /\ \E c \in DOMAIN view_out.angles :
          NoiseAngle(view_out.win, c[1], c[2], frequency, view_out.perlin_z, 1) # 0
    /\ frame.advected
    /\ \E i \in 1 .. Len(Particles) :
          NoiseAngle(particle_system.container, Particles[i].x, Particles[i].y,
                     frequency, frame.noise_z, 1) # 0

---------------------------------------------------------------------------
(* The field the particles and the grid sample within one frame *)

\* view has drawn the frame whose update is recorded in `frame`
FrameDrawn == phase = "update" /\ view_out.status = "drawn"

\* the particles update has sampled the noise for at a point of view's grid
AtGridPoint ==
    {i \in 1 .. Len(frame.sampled) :
        <<frame.sampled[i].x, frame.sampled[i].y>> \in DOMAIN view_out.angles}

\* C11: within one frame, the heading update computes for a particle that
\* stands on a canvas point of view's grid is the angle view draws for that
\* cell, both sampling the noise at the same coordinates
C11_SameField ==
    (FrameDrawn /\ frame.advected)
        => \A i \in AtGridPoint :
              frame.headings[i]
                 = view_out.angles[<<frame.sampled[i].x, frame.sampled[i].y>>]

\* the same, for the frames in which the window has the size the particle
\* system was built with and noise_z reads the same before and after the
\* widgets (not stated as a claim: it locates the two causes of C11's failure)
SameFieldWhereUnchanged ==
    (FrameDrawn /\ frame.advected
        /\ view_out.win = particle_system.container
        /\ view_out.perlin_z = frame.noise_z)
        => \A i \in AtGridPoint :
              frame.headings[i]
                 = view_out.angles[<<frame.sampled[i].x, frame.sampled[i].y>>]

---------------------------------------------------------------------------
(* Who replaces and who writes the accumulation texture *)

\* a step is a call of update in which "Reset particles" was clicked
IsReset == IsUpdate /\ frame'.reset

\* C12: the frame of a "Reset particles" click leaves a texture of the size
\* of the current canvas that holds nothing but what this frame's draw step
\* painted of the regenerated particles (nothing at all with the particles
\* disabled), and a particle set of `count` particles.  Every other step, be
\* it a frame with any other widget operated or a resize, keeps the size of
\* the texture and all of its marks, and adds marks only by the draw step of
\* a frame with the particles enabled, where the particles stand.
C12_OnlyResetReplaces ==
    [][/\ IsReset
            => /\ particle_texture'.w = win.w
               /\ particle_texture'.h = win.h
               /\ particle_texture'.marks
                     = (IF enable_particles'
                        THEN OnTexture(particle_texture', SystemDraw(particle_system'))
                        ELSE {})
               /\ Len(ParticlesNext) = particle_system.count
       /\ ~IsReset
            => /\ particle_texture'.w = particle_texture.w
               /\ particle_texture'.h = particle_texture.h
               /\ particle_texture.marks \subseteq particle_texture'.marks
               /\ (particle_texture'.marks \ particle_texture.marks)
                     \subseteq SystemDraw(particle_system')
               /\ particle_texture'.marks # particle_texture.marks
                     => IsUpdate /\ frame'.advected]_vars

\* C12 witness: after a resize, the frame of a "Reset particles" click has
\* left a texture of the size the window has now, not the size it was built
\* with, which holds marks of the regenerated particles and no others
C12_Witness ==
    /\ phase = "view"
    /\ frame.reset
    /\ win # particle_system.container
    /\ particle_texture.w = win.w
    /\ particle_texture.h = win.h
    /\ particle_texture.marks # {}
    /\ particle_texture.marks \subseteq CellsOf(Particles)

===========================================================================
